---------------------------- MODULE Spec2Model ----------------------------
(***************************************************************************)
(* Epidemic simulation over a location graph: main(), reset_input(),       *)
(* simulate_serial() and simulate_parallel() of                            *)
(* InfectiousDiseaseModeling.cpp.  Individual.h and GraphHandler.h are not *)
(* part of the available sources; the Individual state machine and the     *)
(* neighbourhood index are modelled from the written specification.        *)
(***************************************************************************)
EXTENDS Integers, Sequences, FiniteSets, TLC

(* ------------------------------ bounds -------------------------------- *)
\* population size handed to reset_input / simulate_* (individual_count)
IndividualCount == 4
\* most statistics entries one loop of main computes:
\* repeat_count * (total_epochs + 1)
MaxEntries == 3
\* largest total_epochs of the runs compared under one random seed
MaxSeededEpochs == 0
\* most entries the statistics vector of main is followed to
MaxStatistics == 260
\* largest population size of the runs that vary individual_count
MaxIndividualCount == 5

(* ------------------------- program constants -------------------------- *)
DEFAULT_NUMBER_OF_THREADS == 4
\* thread_count handed to omp_set_num_threads
ThreadCount == 4
\* std::uint8_t holds 0 .. 2^8 - 1
Uint8Bits == 8
Uint8Mod == 2 ^ Uint8Bits
\* seed cases force-infected by reset_input
INITIAL_INFECTED_COUNT == 1
\* epochs an individual stays Infected before it recovers
DiseaseDurationThreshold == 1

Indices == 0 .. (IndividualCount - 1)
Threads == 0 .. (ThreadCount - 1)

(* ------------------------- location graphs ---------------------------- *)
\* Scenario A: one location
SingleLocation == [location_count |-> 1, edges |-> {}]
\* Scenario B: component A = {0, 1}, component B = {2}
TwoComponents == [location_count |-> 3, edges |-> {{0, 1}}]
Graphs == {SingleLocation, TwoComponents}

Locations(g) == 0 .. (g.location_count - 1)

\* GraphHandler::get_node_neighborhood_lookup_map: location -> itself and
\* its adjacent locations
NeighborhoodLookupMap(g) ==
  [l \in Locations(g) |-> {l} \cup {m \in Locations(g) : {l, m} \in g.edges}]

\* locations reachable from l by any number of movement steps
RECURSIVE ReachFrom(_, _)
ReachFrom(g, S) ==
  LET T == S \cup UNION {NeighborhoodLookupMap(g)[l] : l \in S}
  IN IF T = S THEN S ELSE ReachFrom(g, T)

Component(g, l) == ReachFrom(g, {l})

(* --------------------------- Individual ------------------------------- *)
NewIndividual(loc) ==
  [location |-> loc, infection_state |-> "Susceptible",
   infected_duration |-> 0, ever_hit |-> FALSE]

IsInfected(ind) == ind.infection_state = "Infected"

IsHit(ind) == ind.ever_hit

Infect(ind) ==
  [ind EXCEPT !.infection_state = "Infected", !.infected_duration = 0,
              !.ever_hit = TRUE]

\* try_infect(): draw is the outcome of the infection-probability draw
TryInfect(ind, draw) ==
  IF ind.infection_state = "Susceptible" /\ draw THEN Infect(ind) ELSE ind

AdvanceEpoch(ind) ==
  IF ind.infection_state = "Infected"
  THEN LET d == ind.infected_duration + 1
       IN IF d > DiseaseDurationThreshold
          THEN [ind EXCEPT !.infection_state = "Recovered",
                           !.infected_duration = d]
          ELSE [ind EXCEPT !.infected_duration = d]
  ELSE ind

\* move(neighborhood) building the moved individual anew
MoveToFresh(ind, target) == NewIndividual(target)

\* move(neighborhood): target is the element drawn from the neighbourhood
MoveTo(ind, target) == [ind EXCEPT !.location = target]

\* GraphHandler::get_random_individuals: every population reset_input can
\* draw, before the seed cases are infected
RandomIndividuals(count, location_count) ==
  {[i \in 0 .. (count - 1) |-> NewIndividual(f[i])] :
     f \in [0 .. (count - 1) -> 0 .. (location_count - 1)]}

\* lines 48, 50 without the comparison of the locations
MeetsAnywhere(cur, other) == IsInfected(other)

\* lines 48, 50 and 113, 120: an individual is where an infected one is
Meets(cur, other) == IsInfected(other) /\ cur.location = other.location

\* lines 48-51 with infect() called in the place of try_infect()
ExposeForced(cur, other, draw) ==
  IF Meets(cur, other) THEN Infect(cur) ELSE cur

\* lines 48-51 and 113-121: try_infect on an individual that meets another
Expose(cur, other, draw) ==
  IF Meets(cur, other) THEN TryInfect(cur, draw) ELSE cur

\* lines 29-30 handing move() every location of the map
NeighborhoodOfAll(map, ind) == DOMAIN map

\* lines 29-30 and 108: the neighbourhood looked up for an individual
Neighborhood(map, ind) == map[ind.location]

\* lines 30, 108 looking up the location after the one of the individual
MapAtNextKey(map, key) ==
  IF key + 1 \in DOMAIN map THEN map
  ELSE [k \in DOMAIN map \cup {key + 1} |->
          IF k = key + 1 THEN {} ELSE map[k]]

\* std::map operator[]: a missing key is inserted with an empty value
MapAt(map, key) ==
  IF key \in DOMAIN map THEN map
  ELSE [k \in DOMAIN map \cup {key} |-> IF k = key THEN {} ELSE map[k]]

Size(v) == Cardinality(DOMAIN v)

\* no Susceptible individual can ever share a location with an Infected one
NoNewInfection(g, population) ==
  \A i, j \in DOMAIN population :
     (population[i].infection_state = "Susceptible" /\ IsInfected(population[j]))
       => population[j].location \notin Component(g, population[i].location)

(* ----------------------------- state ---------------------------------- *)
VARIABLES
  input_graph,         \* content of the edge file named by input_graph_filename
  individual_count,    \* main: individual_count
  total_epochs,        \* main: total_epochs
  repeat_count,        \* main: repeat_count
  seeded,              \* whether every run draws from the same random seed
  pc,                  \* main's position
  current_repeat,      \* main: current_repeat of the running loop
  individual_graph,    \* main: individual_graph
  individuals,         \* main: individuals, index -> Individual
  epoch_statistics,    \* main: epoch_statistics, handed to simulate_parallel
  serial_statistics,   \* simulate_serial: its local epoch_statistics
  serial_final,        \* under a fixed seed: what the last serial run computed
  neighborhood_lookup_map, \* simulate_*: neighborhood_lookup_map
  current_epoch,       \* simulate_*: current_epoch
  phase,               \* simulate_*: position in the epoch loop body
  individual_index,    \* simulate_serial: position of the running loop
  progress,            \* simulate_parallel: per thread, own indices done
  hit_count,           \* simulate_*: hit_count
  infected_count,      \* simulate_*: infected_count
  private_counts,      \* simulate_parallel: per thread reduction copies
  statics,             \* simulate_parallel: static max_index, chunk
  schedule_chunk,      \* chunk size the OpenMP runtime deals iterations by
  rng,                 \* the draws made so far under the fixed seed
  snapshot,            \* individuals at the start of the running phase
  sources,             \* indices read as infection source in this phase
  tries,               \* per index, try_infect calls that could infect it
  run_base,            \* Len of the statistics vector when the run began
  quiet_at             \* entry of the run from which no infection is possible

config == <<input_graph, individual_count, total_epochs, repeat_count, seeded>>

locals ==
  <<neighborhood_lookup_map, current_epoch, phase, individual_index, progress,
    hit_count, infected_count, private_counts, schedule_chunk, snapshot,
    sources, tries, run_base, quiet_at>>

vars ==
  <<config, pc, current_repeat, individual_graph, individuals,
    epoch_statistics, serial_statistics, serial_final, locals, statics, rng>>

NoGraph == [location_count |-> 0, edges |-> {}]
NoProgress == [t \in Threads |-> 0]
NoCounts == [t \in Threads |-> [hit_count |-> 0, infected_count |-> 0]]
NoRng == [population |-> {}, moves |-> {}, draws |-> {}]
\* lines 13-14 before the first call of simulate_parallel
NoStatics == [initialised |-> FALSE, max_index |-> 0, chunk |-> 0]
NoTries == [i \in 0 .. (MaxIndividualCount - 1) |-> 0]

\* main, lines 193-196, before the first reset_input
InitMain ==
  /\ pc = "main_reset"
  /\ current_repeat = 0
  /\ individual_graph = NoGraph
  /\ individuals = << >>
  /\ epoch_statistics = << >>
  /\ serial_statistics = << >>
  /\ serial_final = << >>
  /\ neighborhood_lookup_map = << >>
  /\ current_epoch = 0
  /\ phase = "idle"
  /\ individual_index = 0
  /\ progress = NoProgress
  /\ hit_count = 0
  /\ infected_count = 0
  /\ private_counts = NoCounts
  /\ schedule_chunk = 0
  /\ rng = NoRng
  /\ snapshot = << >>
  /\ sources = {}
  /\ tries = NoTries
  /\ run_base = 0
  /\ quiet_at = 0

\* the runs main can be configured for, within the bound
Configurations ==
  {c \in (0 .. (MaxEntries - 1)) \X (1 .. MaxEntries) :
     c[2] * (c[1] + 1) <= MaxEntries}

Init ==
  /\ statics = NoStatics
  /\ input_graph \in Graphs
  /\ individual_count = IndividualCount
  /\ \E c \in Configurations : total_epochs = c[1] /\ repeat_count = c[2]
  /\ seeded = FALSE
  /\ InitMain

(* --------------------------- random draws ----------------------------- *)
\* Under a fixed seed a draw is a function of what it is drawn for: the
\* population of a reset, the move of individual i in epoch e, the k-th
\* try_infect on individual i in epoch e.
PopulationDrawn(p) ==
  (seeded /\ rng.population # {}) => p \in rng.population

MoveDrawn(e, i, target) ==
  \A m \in rng.moves : (seeded /\ m[1] = e /\ m[2] = i) => m[3] = target

InfectionDrawn(e, i, k, draw) ==
  \A d \in rng.draws :
     (seeded /\ d[1] = e /\ d[2] = i /\ d[3] = k) => d[4] = draw

(* ---------------------------- reset_input ----------------------------- *)
\* lines 160-162
InfectInitial(p) ==
  [i \in DOMAIN p |-> IF i < INITIAL_INFECTED_COUNT THEN Infect(p[i]) ELSE p[i]]

\* lines 150-163, returning to return_to in main.  Line 161 indexes the
\* vector without any check: with INITIAL_INFECTED_COUNT > individual_count
\* it writes beyond the end of the vector, and the process dies there or
\* goes on with the vector as it is.
ResetInput(return_to) ==
  /\ individual_graph' = input_graph
  /\ \E p \in RandomIndividuals(individual_count, input_graph.location_count) :
       /\ PopulationDrawn(p)
       /\ individuals' = InfectInitial(p)
       /\ rng' = IF seeded THEN [rng EXCEPT !.population = {p}] ELSE rng
  /\ IF INITIAL_INFECTED_COUNT <= individual_count
     THEN pc' = return_to
     ELSE pc' \in {return_to, "crashed"}

(* ------------------------------- main --------------------------------- *)
\* main, line 199
MainReset ==
  /\ pc = "main_reset"
  /\ ResetInput("serial_loop")
  /\ current_repeat' = 0
  /\ UNCHANGED <<config, epoch_statistics, serial_statistics, serial_final,
                 locals, statics>>

\* main, lines 208-209: the loop test and the reset of one serial repeat
SerialRepeat ==
  /\ pc = "serial_loop"
  /\ IF current_repeat # repeat_count
     THEN /\ ResetInput("serial_call")
          /\ UNCHANGED current_repeat
     ELSE /\ pc' = "parallel_loop"
          /\ current_repeat' = 0
          /\ UNCHANGED <<individual_graph, individuals, rng>>
  /\ UNCHANGED <<config, epoch_statistics, serial_statistics, serial_final,
                 locals, statics>>

\* main, lines 221-222, and the end of main
ParallelRepeat ==
  /\ pc = "parallel_loop"
  /\ IF current_repeat # repeat_count
     THEN /\ ResetInput("parallel_call")
          /\ UNCHANGED current_repeat
     ELSE /\ pc' = "done"
          /\ UNCHANGED <<current_repeat, individual_graph, individuals, rng>>
  /\ UNCHANGED <<config, epoch_statistics, serial_statistics, serial_final,
                 locals, statics>>

\* the locals of a simulate_* call end with the call
NoLocals ==
  /\ neighborhood_lookup_map' = << >>
  /\ current_epoch' = 0
  /\ phase' = "idle"
  /\ individual_index' = 0
  /\ progress' = NoProgress
  /\ hit_count' = 0
  /\ infected_count' = 0
  /\ private_counts' = NoCounts
  /\ schedule_chunk' = 0
  /\ snapshot' = << >>
  /\ sources' = {}
  /\ tries' = NoTries
  /\ run_base' = 0
  /\ quiet_at' = 0

\* the entry appended as the n-th of its run is the first one computed with
\* no infection possible any more
QuietAt(n) ==
  IF quiet_at = 0 /\ NoNewInfection(individual_graph, individuals)
  THEN n ELSE quiet_at

(* -------------------------- simulate_serial --------------------------- *)
\* lines 95-104
SerialCall ==
  /\ pc = "serial_call"
  /\ pc' = "serial"
  /\ serial_statistics' = << >>
  /\ neighborhood_lookup_map' = NeighborhoodLookupMap(individual_graph)
  /\ current_epoch' = 0
  /\ phase' = "test"
  /\ run_base' = 0
  /\ quiet_at' = 0
  /\ UNCHANGED <<config, current_repeat, individual_graph, individuals,
                 epoch_statistics, serial_final, individual_index, progress,
                 hit_count, infected_count, private_counts, schedule_chunk,
                 snapshot, sources, tries, statics, rng>>

\* line 104: the loop test; lines 142-148: the return to main when it fails
SerialLoop ==
  /\ pc = "serial"
  /\ phase = "test"
  /\ IF current_epoch < total_epochs + 1
     THEN /\ phase' = "move"
          /\ snapshot' = individuals
          /\ UNCHANGED <<pc, current_repeat, serial_statistics, serial_final,
                         neighborhood_lookup_map, current_epoch,
                         individual_index, progress, hit_count,
                         infected_count, private_counts, schedule_chunk,
                         sources, tries, run_base, quiet_at>>
     ELSE /\ pc' = "serial_loop"
          /\ current_repeat' = (current_repeat + 1) % Uint8Mod
          /\ serial_final' = IF seeded THEN serial_statistics ELSE << >>
          /\ serial_statistics' = << >>
          /\ NoLocals
  /\ UNCHANGED <<config, individual_graph, individuals, epoch_statistics,
                 statics, rng>>

\* lines 134-137
SerialCount(c, ind) ==
  [hit_count |-> IF IsHit(ind) THEN c.hit_count + 1 ELSE c.hit_count,
   infected_count |-> IF IsInfected(ind) THEN c.infected_count + 1
                      ELSE c.infected_count]

\* lines 107-108, one individual
SerialMove ==
  /\ pc = "serial"
  /\ phase = "move"
  /\ individual_index < Size(individuals)
  /\ LET i == individual_index
         map == MapAt(neighborhood_lookup_map, individuals[i].location)
         neighborhood == Neighborhood(map, individuals[i])
     IN /\ neighborhood_lookup_map' = map
        /\ \E target \in neighborhood :
             /\ MoveDrawn(current_epoch, i, target)
             /\ individuals' = [individuals EXCEPT ![i] = MoveTo(@, target)]
             /\ rng' = IF seeded
                       THEN [rng EXCEPT
                               !.moves = @ \cup {<<current_epoch, i, target>>}]
                       ELSE rng
        /\ individual_index' = i + 1
  /\ UNCHANGED <<config, pc, current_repeat, individual_graph,
                 epoch_statistics, serial_statistics, serial_final,
                 current_epoch, phase, progress, hit_count, infected_count,
                 private_counts, schedule_chunk, snapshot, sources, tries,
                 run_base, quiet_at, statics>>

\* lines 111-125, one individual_index and its whole inner loop
SerialInfect ==
  /\ pc = "serial"
  /\ phase = "infect"
  /\ individual_index # Size(individuals)
  /\ LET i == individual_index
         others == IF IsInfected(individuals[i])
                   THEN DOMAIN individuals \ {i} ELSE {}
         exposed == {j \in others :
                       /\ Meets(individuals[j], individuals[i])
                       /\ individuals[j].infection_state = "Susceptible"}
     IN /\ \E lucky \in SUBSET exposed :
             /\ \A j \in exposed :
                  InfectionDrawn(current_epoch, j, tries[j] + 1, j \in lucky)
             /\ individuals' =
                  [j \in DOMAIN individuals |->
                     IF j \in others
                     THEN Expose(individuals[j], individuals[i], j \in lucky)
                     ELSE individuals[j]]
             /\ rng' = IF seeded
                       THEN [rng EXCEPT !.draws = @ \cup
                               {<<current_epoch, j, tries[j] + 1, j \in lucky>> :
                                  j \in exposed}]
                       ELSE rng
        /\ tries' = [j \in DOMAIN tries |->
                       IF j \in exposed THEN tries[j] + 1 ELSE tries[j]]
        /\ sources' = IF exposed # {} THEN sources \cup {i} ELSE sources
        /\ individual_index' = i + 1
  /\ UNCHANGED <<config, pc, current_repeat, individual_graph,
                 epoch_statistics, serial_statistics, serial_final,
                 neighborhood_lookup_map, current_epoch, phase, progress,
                 hit_count, infected_count, private_counts, schedule_chunk,
                 snapshot, run_base, quiet_at, statics>>

\* lines 129-138, one individual
SerialAdvance ==
  /\ pc = "serial"
  /\ phase = "advance"
  /\ individual_index < Size(individuals)
  /\ LET i == individual_index
         advanced == AdvanceEpoch(individuals[i])
         c == SerialCount([hit_count |-> hit_count,
                           infected_count |-> infected_count], advanced)
     IN /\ individuals' = [individuals EXCEPT ![i] = advanced]
        /\ hit_count' = c.hit_count
        /\ infected_count' = c.infected_count
        /\ individual_index' = i + 1
  /\ UNCHANGED <<config, pc, current_repeat, individual_graph,
                 epoch_statistics, serial_statistics, serial_final,
                 neighborhood_lookup_map, current_epoch, phase, progress,
                 private_counts, schedule_chunk, snapshot, sources, tries,
                 run_base, quiet_at, statics, rng>>

\* the end of the loops of lines 107, 111 and 129; lines 127-128
SerialPhaseEnd ==
  /\ pc = "serial"
  /\ phase \in {"move", "infect", "advance"}
  /\ individual_index = Size(individuals)
  /\ individual_index' = 0
  /\ phase' = CASE phase = "move" -> "infect"
               [] phase = "infect" -> "advance"
               [] phase = "advance" -> "append"
  /\ snapshot' = IF phase = "move" THEN individuals ELSE << >>
  /\ sources' = {}
  /\ tries' = IF phase = "infect" THEN NoTries ELSE tries
  /\ hit_count' = IF phase = "infect" THEN 0 ELSE hit_count
  /\ infected_count' = IF phase = "infect" THEN 0 ELSE infected_count
  /\ UNCHANGED <<config, pc, current_repeat, individual_graph, individuals,
                 epoch_statistics, serial_statistics, serial_final,
                 neighborhood_lookup_map, current_epoch, progress,
                 private_counts, schedule_chunk, run_base, quiet_at, statics,
                 rng>>

\* line 139 and the ++current_epoch of line 104
SerialAppend ==
  /\ pc = "serial"
  /\ phase = "append"
  /\ serial_statistics' =
       Append(serial_statistics, <<hit_count, infected_count>>)
  /\ quiet_at' = QuietAt(Len(serial_statistics') - run_base)
  /\ current_epoch' = current_epoch + 1
  /\ phase' = "test"
  /\ hit_count' = 0
  /\ infected_count' = 0
  /\ UNCHANGED <<config, pc, current_repeat, individual_graph, individuals,
                 epoch_statistics, serial_final, neighborhood_lookup_map,
                 individual_index, progress, private_counts, schedule_chunk,
                 snapshot, sources, tries, run_base, statics, rng>>

(* ------------------------- simulate_parallel -------------------------- *)
\* schedule(static, chunk): chunks are dealt to the threads round-robin
OwnerOf(index, chunk) == (index \div chunk) % ThreadCount

\* lines 25-26 without the worksharing construct: every thread of the team
\* runs every iteration
OwnIndicesUnshared(t) == 0 .. (statics.max_index - 1)

\* lines 25-26, 41-42, 70-71: the iterations 0 .. max_index - 1 thread t runs
OwnIndices(t) ==
  {index \in 0 .. (statics.max_index - 1) : OwnerOf(index, schedule_chunk) = t}

\* the index a thread takes after having done n of its own, in loop order
NthOwn(t, n) ==
  CHOOSE index \in OwnIndices(t) :
    Cardinality({j \in OwnIndices(t) : j < index}) = n

Pending(t) == progress[t] < Cardinality(OwnIndices(t))

\* the end of a parallel region passed as soon as one thread is through
RegionDoneAfterFirst == \E t \in Threads : ~Pending(t)

\* lines 35, 62, 82: every thread of the team has reached the implicit
\* barrier at the end of the parallel region
RegionDone == \A t \in Threads : ~Pending(t)

\* what a read beyond the end of the vector can return as an Individual
AnyIndividual ==
  [location : {0}, infection_state : {"Susceptible", "Infected", "Recovered"},
   infected_duration : {0}, ever_hit : BOOLEAN]

\* lines 76-80 with the else branch counting the wrong counter
ParallelCountWrongCounter(c, ind) ==
  IF IsInfected(ind)
  THEN [hit_count |-> c.hit_count + 1, infected_count |-> c.infected_count + 1]
  ELSE IF IsHit(ind)
       THEN [c EXCEPT !.infected_count = c.infected_count + 1]
       ELSE c

\* lines 76-80 with line 76 testing is_hit() in the place of is_infected()
ParallelCountHitAsInfected(c, ind) ==
  IF IsHit(ind)
  THEN [hit_count |-> c.hit_count + 1, infected_count |-> c.infected_count + 1]
  ELSE c

\* lines 76-80
ParallelCount(c, ind) ==
  IF IsInfected(ind)
  THEN [hit_count |-> c.hit_count + 1, infected_count |-> c.infected_count + 1]
  ELSE IF IsHit(ind)
       THEN [c EXCEPT !.hit_count = c.hit_count + 1]
       ELSE c

\* lines 46-58: the scan of current_individual over the other individuals
\* from affecting_index on; view is what the reads of the shared vector
\* return, draws[k] the outcome of the k-th try_infect that can infect
RECURSIVE Scan(_, _, _, _, _, _, _)
Scan(cur, view, count, affecting_index, k, srcs, draws) ==
  IF affecting_index >= count
  THEN [individual |-> cur, saved |-> FALSE, tries |-> k, srcs |-> srcs]
  ELSE LET other == view[affecting_index]
           exposed == Meets(cur, other) /\ cur.infection_state = "Susceptible"
           k2 == IF exposed THEN k + 1 ELSE k
           tried == Expose(cur, other, IF exposed THEN draws[k2] ELSE FALSE)
           srcs2 == IF exposed THEN srcs \cup {affecting_index} ELSE srcs
       IN IF Meets(cur, other) /\ IsInfected(tried)
          THEN [individual |-> tried, saved |-> TRUE, tries |-> k2,
                srcs |-> srcs2]
          ELSE Scan(tried, view, count, affecting_index + 1, k2, srcs2, draws)

\* lines 13-14: what a call with count individuals initialises the statics to
StaticsOf(count) ==
  [initialised |-> TRUE, max_index |-> count,
   chunk |-> count \div DEFAULT_NUMBER_OF_THREADS]

\* lines 10-20: the statics are initialised by the first call only
ParallelCall ==
  /\ pc = "parallel_call"
  /\ statics' =
       IF statics.initialised THEN statics ELSE StaticsOf(Size(individuals))
  \* schedule(static, chunk) asks for a positive chunk.  With chunk = 0
  \* (max_index < DEFAULT_NUMBER_OF_THREADS) the runtime deals the iterations
  \* in blocks, one iteration per thread here, or the region never ends
  /\ \/ /\ statics'.chunk >= 1
        /\ schedule_chunk' = statics'.chunk
        /\ pc' = "parallel"
     \/ /\ statics'.chunk < 1
        /\ schedule_chunk' = 1
        /\ pc' \in {"parallel", "crashed"}
  /\ neighborhood_lookup_map' = NeighborhoodLookupMap(individual_graph)
  /\ current_epoch' = 0
  /\ phase' = "test"
  /\ run_base' = Len(epoch_statistics)
  /\ quiet_at' = 0
  /\ UNCHANGED <<config, current_repeat, individual_graph, individuals,
                 epoch_statistics, serial_statistics, serial_final,
                 individual_index, progress, hit_count, infected_count,
                 private_counts, snapshot, sources, tries, rng>>

\* line 20: the loop test; lines 87-93: the return to main when it fails
ParallelLoop ==
  /\ pc = "parallel"
  /\ phase = "test"
  /\ IF current_epoch < total_epochs + 1
     THEN /\ phase' = "move"
          /\ snapshot' = individuals
          /\ UNCHANGED <<pc, current_repeat, neighborhood_lookup_map,
                         current_epoch, individual_index, progress, hit_count,
                         infected_count, private_counts, schedule_chunk,
                         sources, tries, run_base, quiet_at>>
     ELSE /\ pc' = "parallel_loop"
          /\ current_repeat' = (current_repeat + 1) % Uint8Mod
          /\ NoLocals
  /\ UNCHANGED <<config, individual_graph, individuals, epoch_statistics,
                 serial_statistics, serial_final, statics, rng>>

\* lines 26-34, one index of thread t
ParallelMove(t) ==
  /\ pc = "parallel"
  /\ phase = "move"
  /\ Pending(t)
  /\ LET index == NthOwn(t, progress[t])
     IN IF index < Size(individuals)
        THEN LET current_individual == individuals[index]
                 map == MapAt(neighborhood_lookup_map,
                              current_individual.location)
                 neighborhood == Neighborhood(map, current_individual)
             IN /\ neighborhood_lookup_map' = map
                /\ \E target \in neighborhood :
                     /\ MoveDrawn(current_epoch, index, target)
                     /\ individuals' =
                          [individuals EXCEPT
                             ![index] = MoveTo(current_individual, target)]
                /\ pc' = pc
        \* max_index is beyond the end of the vector: the location read
        \* there is any number, and the write of line 33 lands outside
        ELSE /\ \E key \in 0 .. individual_graph.location_count :
                  neighborhood_lookup_map' = MapAt(neighborhood_lookup_map, key)
             /\ pc' \in {"parallel", "crashed"}
             /\ UNCHANGED individuals
  /\ progress' = [progress EXCEPT ![t] = @ + 1]
  /\ UNCHANGED <<config, current_repeat, individual_graph, epoch_statistics,
                 serial_statistics, serial_final, current_epoch, phase,
                 individual_index, hit_count, infected_count, private_counts,
                 schedule_chunk, snapshot, sources, tries, run_base, quiet_at,
                 statics, rng>>

\* What thread t can read in the shared vector during the infection phase:
\* a slot another thread writes in this phase is read without any
\* synchronisation, and the read returns the slot as it was at the start of
\* the phase or as it is now.
Views(t) ==
  LET racy == {a \in DOMAIN individuals :
                 /\ OwnerOf(a, schedule_chunk) # t
                 /\ individuals[a] # snapshot[a]}
  IN {[a \in DOMAIN individuals |->
         IF a \in stale THEN snapshot[a] ELSE individuals[a]] :
        stale \in SUBSET racy}

\* lines 42-60, one index of thread t
ParallelInfect(t) ==
  /\ pc = "parallel"
  /\ phase = "infect"
  /\ Pending(t)
  /\ LET index == NthOwn(t, progress[t])
     IN IF index >= Size(individuals)
        \* beyond the end of the vector: whatever is read and written there,
        \* the individuals stay as they are
        THEN /\ pc' \in {"parallel", "crashed"}
             /\ UNCHANGED <<individuals, tries, sources>>
        ELSE /\ pc' = pc
             /\ IF ~IsInfected(individuals[index])
                THEN \E view \in Views(t), first \in 0 .. individual_count :
                       \* the draws fail up to the first one that succeeds
                       LET draws == [k \in 1 .. individual_count |-> k = first]
                           r == Scan(individuals[index], view, individual_count,
                                     0, tries[index], {}, draws)
                       IN /\ first <= r.tries
                          /\ \A k \in 1 .. r.tries :
                               InfectionDrawn(current_epoch, index, k, draws[k])
                          /\ individuals' =
                               IF r.saved
                               THEN [individuals EXCEPT ![index] = r.individual]
                               ELSE individuals
                          /\ tries' = [tries EXCEPT ![index] = r.tries]
                          /\ sources' = sources \cup r.srcs
                ELSE UNCHANGED <<individuals, tries, sources>>
  /\ progress' = [progress EXCEPT ![t] = @ + 1]
  /\ UNCHANGED <<config, current_repeat, individual_graph, epoch_statistics,
                 serial_statistics, serial_final, neighborhood_lookup_map,
                 current_epoch, phase, individual_index, hit_count,
                 infected_count, private_counts, schedule_chunk, snapshot,
                 run_base, quiet_at, statics, rng>>

\* lines 71-81, one index of thread t
ParallelAdvance(t) ==
  /\ pc = "parallel"
  /\ phase = "advance"
  /\ Pending(t)
  /\ LET index == NthOwn(t, progress[t])
     IN IF index < Size(individuals)
        THEN LET current_individual == AdvanceEpoch(individuals[index])
             IN /\ individuals' =
                     [individuals EXCEPT ![index] = current_individual]
                /\ private_counts' =
                     [private_counts EXCEPT
                        ![t] = ParallelCount(@, current_individual)]
                /\ pc' = pc
        \* beyond the end of the vector: what is read there is counted
        ELSE /\ \E current_individual \in AnyIndividual :
                  private_counts' =
                    [private_counts EXCEPT
                       ![t] = ParallelCount(@, AdvanceEpoch(current_individual))]
             /\ pc' \in {"parallel", "crashed"}
             /\ UNCHANGED individuals
  /\ progress' = [progress EXCEPT ![t] = @ + 1]
  /\ UNCHANGED <<config, current_repeat, individual_graph,
                 epoch_statistics, serial_statistics, serial_final,
                 neighborhood_lookup_map, current_epoch, phase,
                 individual_index, hit_count, infected_count, schedule_chunk,
                 snapshot, sources, tries, run_base, quiet_at, statics, rng>>

\* line 67 without the reduction clause: the counts of one thread only
SumOverFirst(f, S) == IF S = {} THEN 0 ELSE f[CHOOSE x \in S : TRUE]

\* line 67, reduction(+: infected_count, hit_count)
RECURSIVE SumOver(_, _)
SumOver(f, S) ==
  IF S = {} THEN 0
  ELSE LET t == CHOOSE x \in S : TRUE IN f[t] + SumOver(f, S \ {t})

\* lines 35, 62 and 82: the barrier that ends a parallel region; lines 65-66
\* before the third region, and the reduction of the private counts into
\* hit_count and infected_count at its end
Barrier ==
  /\ pc = "parallel"
  /\ phase \in {"move", "infect", "advance"}
  /\ RegionDone
  /\ progress' = NoProgress
  /\ phase' = CASE phase = "move" -> "infect"
               [] phase = "infect" -> "advance"
               [] phase = "advance" -> "append"
  /\ snapshot' = IF phase = "move" THEN individuals ELSE << >>
  /\ sources' = {}
  /\ tries' = IF phase = "infect" THEN NoTries ELSE tries
  /\ CASE phase = "move" ->
            UNCHANGED <<hit_count, infected_count, private_counts>>
       [] phase = "infect" ->
            /\ hit_count' = 0
            /\ infected_count' = 0
            /\ private_counts' = NoCounts
       [] phase = "advance" ->
            /\ hit_count' = hit_count +
                 SumOver([t \in Threads |-> private_counts[t].hit_count], Threads)
            /\ infected_count' = infected_count +
                 SumOver([t \in Threads |-> private_counts[t].infected_count],
                         Threads)
            /\ private_counts' = NoCounts
  /\ UNCHANGED <<config, pc, current_repeat, individual_graph, individuals,
                 epoch_statistics, serial_statistics, serial_final,
                 neighborhood_lookup_map, current_epoch, individual_index,
                 schedule_chunk, run_base, quiet_at, statics, rng>>

\* line 84 and the ++current_epoch of line 20 (std::uint8_t)
ParallelAppend ==
  /\ pc = "parallel"
  /\ phase = "append"
  /\ Len(epoch_statistics) < MaxStatistics
  /\ epoch_statistics' =
       Append(epoch_statistics, <<hit_count, infected_count>>)
  /\ quiet_at' = QuietAt(Len(epoch_statistics') - run_base)
  /\ current_epoch' = (current_epoch + 1) % Uint8Mod
  /\ phase' = "test"
  /\ hit_count' = 0
  /\ infected_count' = 0
  /\ UNCHANGED <<config, pc, current_repeat, individual_graph, individuals,
                 serial_statistics, serial_final, neighborhood_lookup_map,
                 individual_index, progress, private_counts, schedule_chunk,
                 snapshot, sources, tries, run_base, statics, rng>>

Next ==
  \/ MainReset
  \/ SerialRepeat
  \/ ParallelRepeat
  \/ SerialCall
  \/ SerialLoop
  \/ SerialMove
  \/ SerialInfect
  \/ SerialAdvance
  \/ SerialPhaseEnd
  \/ SerialAppend
  \/ ParallelCall
  \/ ParallelLoop
  \/ \E t \in Threads : ParallelMove(t)
  \/ \E t \in Threads : ParallelInfect(t)
  \/ \E t \in Threads : ParallelAdvance(t)
  \/ Barrier
  \/ ParallelAppend

Spec == Init /\ [][Next]_vars

\* one serial and one parallel run, drawing from the same random seed
InitSeeded ==
  /\ statics = NoStatics
  /\ input_graph \in Graphs
  /\ individual_count = IndividualCount
  /\ total_epochs \in 0 .. MaxSeededEpochs
  /\ repeat_count = 1
  /\ seeded = TRUE
  /\ InitMain

SpecSeeded == InitSeeded /\ [][Next]_vars

\* runs as long as a std::uint8_t total_epochs allows, in one location
InitLongRun ==
  /\ statics = NoStatics
  /\ input_graph = SingleLocation
  /\ individual_count = IndividualCount
  /\ total_epochs \in {Uint8Mod - 2, Uint8Mod - 1}
  /\ repeat_count = 1
  /\ seeded = FALSE
  /\ InitMain

SpecLongRun == InitLongRun /\ [][Next]_vars

\* populations of any size within the bound, in one location; the process
\* may have called simulate_parallel before, with a population of at least
\* one individual, which has initialised the statics of lines 13-14
InitSizes ==
  /\ statics \in {NoStatics} \cup {StaticsOf(n) : n \in 1 .. MaxIndividualCount}
  /\ input_graph = SingleLocation
  /\ individual_count \in 0 .. MaxIndividualCount
  /\ total_epochs = 0
  /\ repeat_count = 1
  /\ seeded = FALSE
  /\ InitMain

SpecSizes == InitSizes /\ [][Next]_vars

(* ------------------------------ claims -------------------------------- *)
HitOf(entry) == entry[1]
InfectedOf(entry) == entry[2]

\* the entries the running simulate_parallel call has appended
RunEntries == SubSeq(epoch_statistics, run_base + 1, Len(epoch_statistics))

\* C5: in every entry of the epoch statistics, of the serial and of the
\* parallel run, infectedCount <= hitCount
C5_InfectedAtMostHit ==
  /\ \A k \in DOMAIN epoch_statistics :
       InfectedOf(epoch_statistics[k]) <= HitOf(epoch_statistics[k])
  /\ \A k \in DOMAIN serial_statistics :
       InfectedOf(serial_statistics[k]) <= HitOf(serial_statistics[k])

\* a parallel run has appended an entry that counts Recovered individuals
\* beside Infected ones
C5_Witness ==
  /\ pc = "parallel"
  /\ \E k \in DOMAIN epoch_statistics :
       /\ 0 < InfectedOf(epoch_statistics[k])
       /\ InfectedOf(epoch_statistics[k]) < HitOf(epoch_statistics[k])

InSimulation == pc \in {"serial", "parallel"}

\* C1: the same configuration, initial population and random draws give the
\* serial and the parallel run equal final hitCount and infectedCount
C1_SerialEqualsParallel ==
  pc = "done" =>
    serial_final[Len(serial_final)] = epoch_statistics[Len(epoch_statistics)]

\* C2: in the infection phase no individual that became Infected during the
\* phase is read as the infection source of another individual
C2_SnapshotRule ==
  (InSimulation /\ phase = "infect") =>
    \A j \in sources : IsInfected(snapshot[j])

\* C3: the statistics handed back by a run with totalEpochs = T hold exactly
\* T + 1 entries, for each run of a series of repeated runs
C3_OneEntryPerEpoch ==
  (pc = "parallel_loop" /\ current_repeat > 0) =>
    Len(epoch_statistics) = total_epochs + 1

\* C4: the epoch loop never runs more than totalEpochs + 1 iterations, in
\* simulate_serial and in simulate_parallel
C4_LoopEndsAfterEpochs ==
  /\ pc = "serial" => Len(serial_statistics) <= total_epochs + 1
  /\ pc = "parallel" => Len(RunEntries) <= total_epochs + 1

\* C6: hitCount never decreases from one entry to the next in the
\* statistics sequence the caller receives
C6_HitNeverDecreases ==
  \A k \in 1 .. (Len(epoch_statistics) - 1) :
     HitOf(epoch_statistics[k]) <= HitOf(epoch_statistics[k + 1])

SeedIndices == {i \in DOMAIN individuals : i < INITIAL_INFECTED_COUNT}

\* no seed case is in the component of individual i
SeedFree(i) ==
  \A s \in SeedIndices :
     individuals[s].location
       \notin Component(individual_graph, individuals[i].location)

\* C7: a Susceptible individual turns Infected only in a step in which it
\* shares its location with an Infected one; no individual leaves its
\* component; hence an individual in a component without seed case is
\* never hit
C7_InfectionNeedsContact ==
  /\ [][InSimulation =>
          \A i \in DOMAIN individuals :
             (/\ individuals[i].infection_state = "Susceptible"
              /\ individuals'[i].infection_state = "Infected")
               => \E j \in DOMAIN individuals \ {i} :
                     /\ IsInfected(individuals[j])
                     /\ individuals[j].location = individuals[i].location]_vars
  /\ [][InSimulation =>
          \A i \in DOMAIN individuals :
             individuals'[i].location
               \in Component(individual_graph, individuals[i].location)]_vars
  /\ [](\A i \in DOMAIN individuals :
          SeedFree(i) => (~individuals[i].ever_hit
                          /\ individuals[i].infection_state = "Susceptible"))

\* Scenario B after an epoch of a parallel run: the seed case has infected
\* someone in its component, two individuals of the other one are not hit
C7_Witness ==
  /\ pc = "parallel"
  /\ input_graph = TwoComponents
  /\ Len(RunEntries) >= 1
  /\ \E i \in DOMAIN individuals \ SeedIndices : individuals[i].ever_hit
  /\ \E i, j \in DOMAIN individuals :
       i # j /\ SeedFree(i) /\ SeedFree(j) /\ ~individuals[i].ever_hit

\* C8: the only changes of state are Susceptible -> Infected and
\* Infected -> Recovered: a Recovered individual stays Recovered
C8_RecoveredIsTerminal ==
  [][InSimulation =>
       \A i \in DOMAIN individuals :
          LET a == individuals[i].infection_state
              b == individuals'[i].infection_state
          IN \/ a = b
             \/ a = "Susceptible" /\ b = "Infected"
             \/ a = "Infected" /\ b = "Recovered"]_vars

\* a thread has scanned for a Recovered individual that shares its location
\* with an Infected one
C8_Witness ==
  /\ pc = "parallel"
  /\ phase = "infect"
  /\ \E i, j \in DOMAIN individuals :
       /\ individuals[i].infection_state = "Recovered"
       /\ Meets(individuals[i], individuals[j])
       /\ ~Pending(OwnerOf(i, schedule_chunk))

\* the entries of the running call: C9 is stated on them
Entries == IF pc = "serial" THEN serial_statistics ELSE RunEntries

\* C9: the first entry has hitCount >= 1; from the entry computed with no
\* new infection possible on, hitCount stays at its peak, and
\* DiseaseDurationThreshold entries later infectedCount is 0 and stays 0
C9_InfectionDiesOut ==
  InSimulation =>
    /\ Len(Entries) >= 1 => HitOf(Entries[1]) >= 1
    /\ quiet_at > 0 =>
         \A k \in DOMAIN Entries :
            /\ HitOf(Entries[k]) <= HitOf(Entries[quiet_at])
            /\ k >= quiet_at => HitOf(Entries[k]) = HitOf(Entries[quiet_at])
            /\ k >= quiet_at + DiseaseDurationThreshold
                 => InfectedOf(Entries[k]) = 0

\* a parallel run in which an infection spread, could spread no further and
\* died out
C9_Witness ==
  /\ pc = "parallel"
  /\ quiet_at > 0
  /\ Len(Entries) >= quiet_at + DiseaseDurationThreshold
  /\ InfectedOf(Entries[quiet_at]) > 1
  /\ InfectedOf(Entries[Len(Entries)]) = 0
  /\ HitOf(Entries[Len(Entries)]) = HitOf(Entries[quiet_at])

\* C10: during and at the end of the movement phase every individual is in
\* the neighbourhood of the location it had when the phase began
C10_MoveWithinNeighborhood ==
  (InSimulation /\ phase = "move") =>
    \A i \in DOMAIN individuals :
       individuals[i].location \in
         NeighborhoodLookupMap(individual_graph)[snapshot[i].location]

\* every thread has finished the movement phase and two individuals have
\* changed their location
C10_Witness ==
  /\ pc = "parallel"
  /\ phase = "move"
  /\ \A t \in Threads : ~Pending(t)
  /\ \E i, j \in DOMAIN individuals :
       /\ i # j
       /\ individuals[i].location # snapshot[i].location
       /\ individuals[j].location # snapshot[j].location

\* C11: with more seed cases than individuals, population construction fails
\* with InvalidConfiguration: main never gets past its first reset_input,
\* and nothing is read or written beyond the end of the population
C11_SeedCountChecked ==
  INITIAL_INFECTED_COUNT > individual_count =>
    pc \in {"main_reset", "invalid_configuration"}

\* lines 20-85: the order of the steps of one pass of the epoch loop
PhaseAfter(p) ==
  CASE p = "test" -> {"move", "idle"}
    [] p = "move" -> {"infect"}
    [] p = "infect" -> {"advance"}
    [] p = "advance" -> {"append"}
    [] p = "append" -> {"test"}
    [] OTHER -> {}

\* the thread that runs iteration i of the running region is through with it
Stepped(i) ==
  LET t == OwnerOf(i, schedule_chunk)
  IN Cardinality({j \in OwnIndices(t) : j <= i}) <= progress[t]

\* C12: simulate_parallel goes from one phase to the next only when every
\* thread has finished every index of the phase, and in the order movement,
\* infection, advance, append, movement of the next epoch
C12_PhasesInOrder ==
  [][(pc = "parallel" /\ phase' # phase) =>
       /\ phase' \in PhaseAfter(phase)
       /\ phase \in {"move", "infect", "advance"} =>
            \A i \in DOMAIN individuals : Stepped(i)]_vars

\* in the second epoch of a parallel run a thread is through with the
\* infection phase while another one is still in it
C12_Witness ==
  /\ pc = "parallel"
  /\ phase = "infect"
  /\ current_epoch = 1
  /\ \E t, u \in Threads : ~Pending(t) /\ Pending(u) /\ progress[t] > 0

\* C13: in the three parallel phases a slot of the vector changes only in a
\* step of the thread whose partition holds its index, taking that index;
\* a thread takes each of its indices once per phase
C13_WritesOwnSlots ==
  [][(pc = "parallel" /\ phase \in {"move", "infect", "advance"}) =>
       \A i \in DOMAIN individuals :
          individuals'[i] # individuals[i] =>
            LET t == OwnerOf(i, schedule_chunk)
            IN /\ progress'[t] = progress[t] + 1
               /\ NthOwn(t, progress[t]) = i
               /\ \A u \in Threads \ {t} : progress'[u] = progress[u]]_vars

\* at the end of an infection phase two threads have each written a slot
C13_Witness ==
  /\ pc = "parallel"
  /\ phase = "infect"
  /\ RegionDone
  /\ \E i, j \in DOMAIN individuals :
       /\ OwnerOf(i, schedule_chunk) # OwnerOf(j, schedule_chunk)
       /\ individuals[i] # snapshot[i]
       /\ individuals[j] # snapshot[j]

\* C14: in the infection phase of an epoch a Susceptible individual gets at
\* most one try_infect call
C14_OneTryPerEpoch ==
  (InSimulation /\ phase = "infect") => \A i \in DOMAIN tries : tries[i] <= 1

\* C15: the entry appended for an epoch holds the number of individuals
\* with everHit and the number of Infected individuals, as they are after
\* the advance phase
C15_EntryCountsPopulation ==
  (InSimulation /\ phase = "test" /\ Len(Entries) >= 1) =>
    Entries[Len(Entries)] =
      <<Cardinality({i \in DOMAIN individuals : individuals[i].ever_hit}),
        Cardinality({i \in DOMAIN individuals : IsInfected(individuals[i])})>>

\* a parallel run has appended an entry that counts Infected and Recovered
\* individuals of the partitions of several threads
C15_Witness ==
  /\ pc = "parallel"
  /\ phase = "test"
  /\ Len(Entries) >= 1
  /\ InfectedOf(Entries[Len(Entries)]) >= 2
  /\ HitOf(Entries[Len(Entries)]) > InfectedOf(Entries[Len(Entries)])

\* C16: in every call of simulate_parallel the loops of the three phases
\* run over the indices 0 .. individuals.size() - 1 of the population handed
\* to the call
C16_LoopsCoverPopulation ==
  (pc = "parallel" /\ individual_count >= INITIAL_INFECTED_COUNT) =>
    statics.max_index = Size(individuals)

\* C17: for a population of N >= 1 individuals the chunk is at least 1,
\* every index belongs to one thread and the indices of a thread are
\* contiguous
C17_PartitionCoversIndices ==
  (pc = "parallel" /\ statics = StaticsOf(Size(individuals))
     /\ Size(individuals) >= 1) =>
    /\ statics.chunk >= 1
    /\ \A i \in DOMAIN individuals :
         Cardinality({t \in Threads : i \in OwnIndices(t)}) = 1
    /\ \A t \in Threads : \A a, b \in OwnIndices(t) :
         \A m \in a .. b : m \in OwnIndices(t)

\* C18: during the epoch loop the neighbourhood lookup map is the map built
\* from the graph at the start of the call
C18_IndexReadOnly ==
  InSimulation =>
    neighborhood_lookup_map = NeighborhoodLookupMap(individual_graph)

\* in the second epoch of a parallel run every thread has looked up the
\* neighbourhoods of its individuals, one of them in the isolated location
C18_Witness ==
  /\ pc = "parallel"
  /\ phase = "move"
  /\ current_epoch = 1
  /\ RegionDone
  /\ input_graph = TwoComponents
  /\ \E i \in DOMAIN individuals :
       NeighborhoodLookupMap(individual_graph)[snapshot[i].location]
         = {snapshot[i].location}

\* C19: a step of the movement phase leaves infection state, infected
\* duration and everHit of every individual as they are; a step of the
\* infection or of the advance phase leaves every location as it is
C19_PhaseFrames ==
  [][InSimulation =>
       \A i \in DOMAIN individuals :
          /\ phase = "move" =>
               /\ individuals'[i].infection_state = individuals[i].infection_state
               /\ individuals'[i].infected_duration
                    = individuals[i].infected_duration
               /\ individuals'[i].ever_hit = individuals[i].ever_hit
          /\ phase \in {"infect", "advance"} =>
               individuals'[i].location = individuals[i].location]_vars

\* at the end of a movement phase an individual infected for one epoch has
\* changed its location
C19_Witness ==
  /\ pc = "parallel"
  /\ phase = "move"
  /\ RegionDone
  /\ \E i \in DOMAIN individuals :
       /\ IsInfected(individuals[i])
       /\ individuals[i].infected_duration = 1
       /\ individuals[i].location # snapshot[i].location

=============================================================================
